---- MODULE Spec2Model ----
(***************************************************************************)
(* A model of stock-backend (src/main.go): the upload handler              *)
(* parseXlsxFile with its store lookups, live fetches and streamed output, *)
(* and the scorers it calls (compareWithPeers, analyzeTrend, rateStock,    *)
(* generateFScore).                                                        *)
(*                                                                         *)
(* Text is a sequence of one-character strings; the character U+00A0 is    *)
(* the element NBSP.  A float64 that the program reads from text is a      *)
(* fixed-point integer counting 1/Unit; a quotient is a pair [n, d].       *)
(* The sample texts carry at most FracDigits fraction digits and never     *)
(* spell "NaN" or "Inf", so every parsed value is exact and finite.        *)
(***************************************************************************)
EXTENDS Integers, Sequences, FiniteSets, TLC

\* ------------------------------------------------------------------ bounds

\* Fraction digits kept by the fixed-point representation of float64.
FracDigits == 3
\* Rows the handler reads in one run, over all sheets.
MaxRows == 3
\* Sheets in one upload (all files together).
MaxSheets == 2
\* Peers before the median record in a peer list.
MaxPeers == 2
\* Entries in one time series of a record.
MaxSeries == 3

\* -------------------------------------------------------------------- text

NBSP == "nbsp"

Digits == <<"0", "1", "2", "3", "4", "5", "6", "7", "8", "9">>

UpperCase ==
    <<"A", "B", "C", "D", "E", "F", "G", "H", "I", "J", "K", "L", "M",
      "N", "O", "P", "Q", "R", "S", "T", "U", "V", "W", "X", "Y", "Z">>

LowerCase ==
    <<"a", "b", "c", "d", "e", "f", "g", "h", "i", "j", "k", "l", "m",
      "n", "o", "p", "q", "r", "s", "t", "u", "v", "w", "x", "y", "z">>

\* unicode.IsSpace over the characters the model uses (U+00A0 is a space).
IsSpace(c) == c \in {" ", NBSP}

ToLowerChar(c) ==
    IF \E i \in DOMAIN UpperCase : UpperCase[i] = c
    THEN LowerCase[CHOOSE i \in DOMAIN UpperCase : UpperCase[i] = c]
    ELSE c

\* strings.ToLower
ToLower(s) == [i \in DOMAIN s |-> ToLowerChar(s[i])]

\* strings.HasPrefix(s[i-1:], lit), positions counted from 1
HasPrefixAt(s, i, lit) ==
    /\ i >= 1
    /\ i + Len(lit) - 1 <= Len(s)
    /\ \A k \in 1..Len(lit) : s[i + k - 1] = lit[k]

\* strings.Contains
Contains(s, lit) == \E i \in 1..(Len(s) + 1) : HasPrefixAt(s, i, lit)

RECURSIVE TrimLeft(_)
TrimLeft(s) ==
    IF s # <<>> /\ IsSpace(Head(s)) THEN TrimLeft(Tail(s)) ELSE s

RECURSIVE TrimRight(_)
TrimRight(s) ==
    IF s # <<>> /\ IsSpace(s[Len(s)])
    THEN TrimRight(SubSeq(s, 1, Len(s) - 1))
    ELSE s

\* strings.TrimSpace
TrimSpace(s) == TrimRight(TrimLeft(s))

\* strings.ReplaceAll(s, old, new) for a non-empty old
RECURSIVE ReplaceAll(_, _, _)
ReplaceAll(s, old, new) ==
    IF s = <<>> THEN <<>>
    ELSE IF HasPrefixAt(s, 1, old)
         THEN new \o ReplaceAll(SubSeq(s, Len(old) + 1, Len(s)), old, new)
         ELSE <<Head(s)>> \o ReplaceAll(Tail(s), old, new)

\* strings.Join(row, "")
RECURSIVE Join(_)
Join(row) == IF row = <<>> THEN <<>> ELSE Head(row) \o Join(Tail(row))

\* ----------------------------------------------------------------- numbers

RECURSIVE Pow10(_)
Pow10(k) == IF k = 0 THEN 1 ELSE 10 * Pow10(k - 1)

\* One unit of the fixed-point representation: the float64 1.0.
Unit == Pow10(FracDigits)

\* Integer quotient truncated toward zero.
Quot(a, b) == IF a >= 0 THEN a \div b ELSE -((-a) \div b)

DigitVal(c) == (CHOOSE i \in DOMAIN Digits : Digits[i] = c) - 1

IsDigit(c) == \E i \in DOMAIN Digits : Digits[i] = c

AllDigits(s) == \A i \in DOMAIN s : IsDigit(s[i])

RECURSIVE NatOf(_)
NatOf(s) ==
    IF s = <<>> THEN 0
    ELSE NatOf(SubSeq(s, 1, Len(s) - 1)) * 10 + DigitVal(s[Len(s)])

IndexOf(s, c) ==
    IF \E i \in DOMAIN s : s[i] = c
    THEN CHOOSE i \in DOMAIN s : s[i] = c /\ \A j \in 1..(i - 1) : s[j] # c
    ELSE 0

Zeros(k) == [i \in 1..k |-> "0"]

\* strconv.ParseFloat(s, 64) on decimal text: an optional sign, digits with
\* at most one point and at least one digit.  err # nil is ok = FALSE, and
\* the value returned with a syntax error is 0.
ParseFloat(s) ==
    LET signed == s # <<>> /\ Head(s) \in {"+", "-"}
        neg == s # <<>> /\ Head(s) = "-"
        body == IF signed THEN Tail(s) ELSE s
        dot == IndexOf(body, ".")
        ip == IF dot = 0 THEN body ELSE SubSeq(body, 1, dot - 1)
        fp == IF dot = 0 THEN <<>> ELSE SubSeq(body, dot + 1, Len(body))
        ok == AllDigits(ip) /\ AllDigits(fp) /\ Len(ip) + Len(fp) > 0
        mag == NatOf(ip) * Unit
               + NatOf(SubSeq(fp \o Zeros(FracDigits), 1, FracDigits))
    IN  [ok |-> ok, f |-> IF ok THEN (IF neg THEN -mag ELSE mag) ELSE 0]

\* --------------------------------------------------------- document values

\* interface{} values as the handler meets them after a store decode.
Nil == [t |-> "nil"]
Str(s) == [t |-> "string", s |-> s]
F64(v) == [t |-> "float64", f |-> v]
Arr(a) == [t |-> "A", a |-> a]
Map(m) == [t |-> "M", m |-> m]

IsStr(v) == v.t = "string"
IsArr(v) == v.t = "A"
IsMap(v) == v.t = "M"

\* m[key] of a Go map: the zero value nil when the key is absent.
Get(m, key) == IF key \in DOMAIN m THEN m[key] ELSE Nil

\* The empty Go map.
EmptyMap == [k \in {} |-> Nil]

\* parseFloat: the helper compareWithPeers reads peer fields with.
parseFloat(value) ==
    CASE value.t = "string" -> ParseFloat(value.s).f
      [] value.t = "float64" -> value.f
      [] OTHER -> 0

\* toFloat: commas removed, a percent sign divides by 100, 0.0 otherwise.
toFloat(value) ==
    IF IsStr(value)
    THEN LET cleanStr == ReplaceAll(value.s, <<",">>, <<>>)
         IN  IF Contains(cleanStr, <<"%">>)
             THEN Quot(ParseFloat(ReplaceAll(cleanStr, <<"%">>, <<>>)).f, 100)
             ELSE ParseFloat(cleanStr).f
    ELSE 0

\* ------------------------------------------------- keys of a stored record

\* Keys of a stored record and of a peer row.
Key ==
    [name |->
        <<"n", "a", "m", "e">>,
     stockPE |->
        <<"s", "t", "o", "c", "k", "P", "E">>,
     marketCap |->
        <<"m", "a", "r", "k", "e", "t", "C", "a", "p">>,
     dividendYield |->
        <<"d", "i", "v", "i", "d", "e", "n", "d", "Y", "i", "e", "l", "d">>,
     roce |->
        <<"r", "o", "c", "e">>,
     peers |->
        <<"p", "e", "e", "r", "s">>,
     quarterlyResults |->
        <<"q", "u", "a", "r", "t", "e", "r", "l", "y", "R", "e", "s", "u", "l", "t", "s">>,
     profitLoss |->
        <<"p", "r", "o", "f", "i", "t", "L", "o", "s", "s">>,
     balanceSheet |->
        <<"b", "a", "l", "a", "n", "c", "e", "S", "h", "e", "e", "t">>,
     cashFlows |->
        <<"c", "a", "s", "h", "F", "l", "o", "w", "s">>,
     url |->
        <<"u", "r", "l">>,
     pe |->
        <<"p", "e">>,
     market_cap |->
        <<"m", "a", "r", "k", "e", "t", "_", "c", "a", "p">>,
     div_yield |->
        <<"d", "i", "v", "_", "y", "i", "e", "l", "d">>,
     sales_qtr |->
        <<"s", "a", "l", "e", "s", "_", "q", "t", "r">>,
     current_price |->
        <<"c", "u", "r", "r", "e", "n", "t", "_", "p", "r", "i", "c", "e">>,
     qtr_profit_var |->
        <<"q", "t", "r", "_", "p", "r", "o", "f", "i", "t", "_", "v", "a", "r">>,
     qtr_sales_var |->
        <<"q", "t", "r", "_", "s", "a", "l", "e", "s", "_", "v", "a", "r">>,
     company_count |->
        <<"c", "o", "m", "p", "a", "n", "y", "_", "c", "o", "u", "n", "t">>,
     np_qtr |->
        <<"n", "p", "_", "q", "t", "r">>]

\* Row labels as the scorers write them.
Label ==
    [NetProfit |->
        <<"N", "e", "t", " ", "P", "r", "o", "f", "i", "t", " ", "+">>,
     TotalAssets |->
        <<"T", "o", "t", "a", "l", " ", "A", "s", "s", "e", "t", "s">>,
     CashFromOps |->
        <<"C", "a", "s", "h", " ", "f", "r", "o", "m", " ", "O", "p", "e", "r", "a", "t", "i", "n", "g", " ", "A", "c", "t", "i", "v", "i", "t", "y", " ", "+">>,
     Borrowings |->
        <<"B", "o", "r", "r", "o", "w", "i", "n", "g", "s", " ", "+">>,
     OtherAssets |->
        <<"O", "t", "h", "e", "r", " ", "A", "s", "s", "e", "t", "s", " ", "+">>,
     OtherLiabilities |->
        <<"O", "t", "h", "e", "r", " ", "L", "i", "a", "b", "i", "l", "i", "t", "i", "e", "s", " ", "+">>,
     EquityCapital |->
        <<"E", "q", "u", "i", "t", "y", " ", "C", "a", "p", "i", "t", "a", "l">>,
     OPM |->
        <<"O", "P", "M", " ", "%">>,
     Sales |->
        <<"S", "a", "l", "e", "s", " ", "+">>]

\* ------------------------------------------------------- compareWithPeers

\* The Stock struct: the float64 fields compareWithPeers reads.
Stock(pe, marketCap, dividendYield, roce, quarterlySales, quarterlyProfit) ==
    [PE |-> pe, MarketCap |-> marketCap, DividendYield |-> dividendYield,
     ROCE |-> roce, QuarterlySales |-> quarterlySales,
     QuarterlyProfit |-> quarterlyProfit]

Max(a, b) == IF a >= b THEN a ELSE b

\* The value a float64-returning function hands back: n / d, or a panic.
Val(n, d) == [panics |-> FALSE, n |-> n, d |-> d]
Panic == [panics |-> TRUE, n |-> 0, d |-> 1]

\* PeerRound with the partial credit for the P/E left unclamped.
PeerRoundUnclamped(stock, peer) ==
    LET peerPE == parseFloat(Get(peer, Key.pe))
        peerMarketCap == parseFloat(Get(peer, Key.market_cap))
        peerDividendYield == parseFloat(Get(peer, Key.div_yield))
        peerROCE == parseFloat(Get(peer, Key.roce))
        peerQuarterlySales == parseFloat(Get(peer, Key.sales_qtr))
        peerQuarterlyProfit == parseFloat(Get(peer, Key.np_qtr))
    IN  (IF stock.PE < peerPE
         THEN 10 * Unit
         ELSE 10 * Unit - (stock.PE - peerPE))
        + (IF stock.MarketCap > peerMarketCap THEN 5 * Unit ELSE 0)
        + (IF stock.DividendYield > peerDividendYield THEN 5 * Unit ELSE 0)
        + (IF stock.ROCE > peerROCE THEN 10 * Unit ELSE 0)
        + (IF stock.QuarterlySales > peerQuarterlySales THEN 5 * Unit ELSE 0)
        + (IF stock.QuarterlyProfit > peerQuarterlyProfit THEN 10 * Unit ELSE 0)

\* One pass of the peer loop: the points one peer adds to peerScore.
PeerRound(stock, peer) ==
    LET peerPE == parseFloat(Get(peer, Key.pe))
        peerMarketCap == parseFloat(Get(peer, Key.market_cap))
        peerDividendYield == parseFloat(Get(peer, Key.div_yield))
        peerROCE == parseFloat(Get(peer, Key.roce))
        peerQuarterlySales == parseFloat(Get(peer, Key.sales_qtr))
        peerQuarterlyProfit == parseFloat(Get(peer, Key.np_qtr))
    IN  (IF stock.PE < peerPE
         THEN 10 * Unit
         ELSE Max(0, 10 * Unit - (stock.PE - peerPE)))
        + (IF stock.MarketCap > peerMarketCap THEN 5 * Unit ELSE 0)
        + (IF stock.DividendYield > peerDividendYield THEN 5 * Unit ELSE 0)
        + (IF stock.ROCE > peerROCE THEN 10 * Unit ELSE 0)
        + (IF stock.QuarterlySales > peerQuarterlySales THEN 5 * Unit ELSE 0)
        + (IF stock.QuarterlyProfit > peerQuarterlyProfit THEN 10 * Unit ELSE 0)

\* The comparison against the last element: the points it adds to peerScore.
MedianRound(stock, median) ==
    LET medianPE == parseFloat(Get(median, Key.pe))
        medianMarketCap == parseFloat(Get(median, Key.market_cap))
        medianDividendYield == parseFloat(Get(median, Key.div_yield))
        medianROCE == parseFloat(Get(median, Key.roce))
        medianQuarterlySales == parseFloat(Get(median, Key.sales_qtr))
        medianQuarterlyProfit == parseFloat(Get(median, Key.np_qtr))
    IN  (IF stock.PE < medianPE
         THEN 5 * Unit
         ELSE Max(0, 5 * Unit - (stock.PE - medianPE)))
        + (IF stock.MarketCap > medianMarketCap THEN 3 * Unit ELSE 0)
        + (IF stock.DividendYield > medianDividendYield THEN 3 * Unit ELSE 0)
        + (IF stock.ROCE > medianROCE THEN 5 * Unit ELSE 0)
        + (IF stock.QuarterlySales > medianQuarterlySales THEN 2 * Unit ELSE 0)
        + (IF stock.QuarterlyProfit > medianQuarterlyProfit THEN 5 * Unit ELSE 0)

\* peerScore after the loop over arr[:len(arr)-1], taken up to element k.
RECURSIVE PeerLoop(_, _, _)
PeerLoop(stock, arr, k) ==
    IF k = 0 THEN 0
    ELSE PeerLoop(stock, arr, k - 1) + PeerRound(stock, arr[k].m)

\* NotEnoughPeers with the length test off by one.
NotEnoughPeersOffByOne(arr) == Len(arr) < 1

\* len(arr) < 2 returns 0.0 at once.
NotEnoughPeers(arr) == Len(arr) < 2

\* PeerCount with the median counted among the peers.
PeerCountWithMedian(arr) == Len(arr)

\* The divisor of the closing return: len(arr) - 1.
PeerCount(arr) == Len(arr) - 1

\* PeerScore with the median round left out of the accumulator.
PeerScoreWithoutMedian(stock, arr) == PeerLoop(stock, arr, Len(arr) - 1)

\* peerScore as it stands at the closing return: peer loop and median round.
PeerScore(stock, arr) ==
    PeerLoop(stock, arr, Len(arr) - 1) + MedianRound(stock, arr[Len(arr)].m)

\* The return: the accumulated points over the number of peers; with no
\* peer the function falls through to peerScore * 0.9.
Averaged(peerScore, peerCount) ==
    IF peerCount > 0 THEN Val(peerScore, peerCount) ELSE Val(9 * peerScore, 10)

\* compareWithPeers(stock, peers).  An element that is no bson.M fails its
\* type assertion, and arr[len(arr)-1] of an empty arr is out of range.  With
\* peerCount > 0 the function returns peerScore / peerCount; otherwise it
\* falls through to peerScore*0.9 + medianScore*0.1 with medianScore 0.0,
\* which is also what a peers value that is no primitive.A returns.
compareWithPeers(stock, peers) ==
    IF ~IsArr(peers) THEN Val(0, 1)
    ELSE IF NotEnoughPeers(peers.a) THEN Val(0, 1)
    ELSE IF Len(peers.a) = 0 \/ \E i \in DOMAIN peers.a : ~IsMap(peers.a[i])
         THEN Panic
    ELSE Averaged(PeerScore(stock, peers.a), PeerCount(peers.a))

\* ------------------------------------------------------------ analyzeTrend

RECURSIVE SumOver(_, _)
SumOver(S, f) ==
    IF S = {} THEN 0
    ELSE LET x == CHOOSE y \in S : TRUE
         IN  f[x] + SumOver(S \ {x}, f)

\* The keys of the current element that the previous element has too.
SharedKeys(prevElem, elemMap) == DOMAIN elemMap \cap DOMAIN prevElem

\* What one element adds to trendScore, given the element before it.
TrendStep(prevElem, elemMap) ==
    SumOver(SharedKeys(prevElem, elemMap),
            [key \in SharedKeys(prevElem, elemMap) |->
                IF toFloat(elemMap[key]) > toFloat(prevElem[key]) THEN 5 * Unit
                ELSE IF toFloat(elemMap[key]) < toFloat(prevElem[key])
                     THEN -(5 * Unit)
                     ELSE 0])

\* The elements of quarterArray that are maps, in order.  prevElem is set
\* by every such element and by no other, so the loop compares each of
\* them with the one before it in this sequence.
QuarterMaps(quarterData) ==
    IF IsArr(quarterData) THEN SelectSeq(quarterData.a, IsMap) ELSE <<>>

\* trendScore added by the first k adjacent pairs of maps.
RECURSIVE PairScore(_, _)
PairScore(maps, k) ==
    IF k <= 0 THEN 0
    ELSE PairScore(maps, k - 1) + TrendStep(maps[k].m, maps[k + 1].m)

\* comparisons counted by the first k adjacent pairs of maps.
RECURSIVE PairCount(_, _)
PairCount(maps, k) ==
    IF k <= 0 THEN 0
    ELSE PairCount(maps, k - 1)
         + Cardinality(SharedKeys(maps[k].m, maps[k + 1].m))

\* trendScore and comparisons of one entry of pastData.
QuarterScore(quarterData) ==
    PairScore(QuarterMaps(quarterData), Len(QuarterMaps(quarterData)) - 1)

QuarterCount(quarterData) ==
    PairCount(QuarterMaps(quarterData), Len(QuarterMaps(quarterData)) - 1)

\* Totals over every entry of pastData.
TrendScore(data) ==
    SumOver(DOMAIN data, [k \in DOMAIN data |-> QuarterScore(data[k])])

Comparisons(data) ==
    SumOver(DOMAIN data, [k \in DOMAIN data |-> QuarterCount(data[k])])

\* analyzeTrend(stock, pastData): trendScore / comparisons, or 0.0.
analyzeTrend(pastData) ==
    IF IsMap(pastData) /\ Comparisons(pastData.m) > 0
    THEN Val(TrendScore(pastData.m), Comparisons(pastData.m))
    ELSE Val(0, 1)

\* --------------------------------------------------------------- rateStock

\* math.Round(a / b) for b > 0: halves round away from zero.
Round(a, b) ==
    IF a >= 0 THEN (2 * a + b) \div (2 * b)
    ELSE -((2 * (-a) + b) \div (2 * b))

\* StockOf with the quarterly figures read from the record.
StockOfWithQuarters(stock) ==
    Stock(toFloat(Get(stock, Key.stockPE)), toFloat(Get(stock, Key.marketCap)),
          toFloat(Get(stock, Key.dividendYield)), toFloat(Get(stock, Key.roce)),
          toFloat(Get(stock, Key.sales_qtr)), toFloat(Get(stock, Key.np_qtr)))

\* The Stock rateStock builds: QuarterlySales and QuarterlyProfit are not
\* set and keep the zero value.
StockOf(stock) ==
    Stock(toFloat(Get(stock, Key.stockPE)), toFloat(Get(stock, Key.marketCap)),
          toFloat(Get(stock, Key.dividendYield)), toFloat(Get(stock, Key.roce)),
          0, 0)

\* rateStock(stock): round(100 * (0.5 * peers + 0.4 * trend)) / 100, kept as
\* the integer count of hundredths.  stock["name"].(string) panics for a name
\* that is no string.
rateStock(stock) ==
    LET p == compareWithPeers(StockOf(stock), Get(stock, Key.peers))
        t == analyzeTrend(Get(stock, Key.quarterlyResults))
    IN  IF ~IsStr(Get(stock, Key.name)) \/ p.panics THEN Panic
        ELSE Val(Round(5 * p.n * t.d + 4 * t.n * p.d,
                       p.d * t.d * (Unit \div 10)), 100)

\* ---------------------------------------------------------- generateFScore

\* The key trimmed and looked up as written.
PathKeyAsWritten(key) == TrimSpace(key)

\* key as getNestedArrayField looks it up: trimmed, and " +" rewritten to
\* U+00A0 followed by "+" when the key holds a "+".
PathKey(key) ==
    LET k == TrimSpace(key)
    IN  IF Contains(k, <<"+">>)
        THEN ReplaceAll(k, <<" ", "+">>, <<NBSP, "+">>)
        ELSE k

\* The loop of getNestedArrayField from path element i on.
RECURSIVE NestedWalk(_, _, _)
NestedWalk(current, path, i) ==
    IF i > Len(path) THEN <<>>
    ELSE LET v == Get(current, PathKey(path[i]))
         IN  IF i = Len(path)
             THEN (IF IsArr(v) THEN v.a ELSE <<>>)
             ELSE (IF IsMap(v) THEN NestedWalk(v.m, path, i + 1) ELSE <<>>)

\* getNestedArrayField(stock, path...): the array at the path, or empty.
getNestedArrayField(stock, path) == NestedWalk(stock, path, 1)

\* a / b in float64: b = 0 gives +Inf, -Inf or NaN by the sign of a.
Ratio(a, b) == IF b < 0 THEN [n |-> -a, d |-> -b] ELSE [n |-> a, d |-> b]

IsNaN(x) == x.d = 0 /\ x.n = 0

\* x > y in float64 (false when either side is NaN).
Gt(x, y) ==
    /\ ~IsNaN(x)
    /\ ~IsNaN(y)
    /\ IF x.d = 0 /\ y.d = 0 THEN x.n > 0 /\ y.n < 0
       ELSE x.n * y.d > y.n * x.d

\* x <= y in float64 (false when either side is NaN).
Le(x, y) == ~IsNaN(x) /\ ~IsNaN(y) /\ ~Gt(x, y)

\* a[len(a)-k] of a Go slice; InRange is what the runtime checks.
InRange(a, k) == Len(a) - k >= 0 /\ k >= 1
FromEnd(a, k) == a[Len(a) - k + 1]

\* a[len(a)-k].(string) succeeds.
StringAt(a, k) == InRange(a, k) /\ IsStr(FromEnd(a, k))

\* calculateRoa(netProfit, totalAssets)
calculateRoa(netProfit, totalAssets) ==
    Ratio(toFloat(netProfit), toFloat(totalAssets))

\* increaseInRoa indexes netProfit[len-2], [len-3] and totalAssets[len-1],
\* [len-2] and asserts each a string, whatever the lengths are.
increaseInRoaPanics(netProfit, totalAssets) ==
    ~(/\ StringAt(netProfit, 2) /\ StringAt(totalAssets, 1)
      /\ StringAt(netProfit, 3) /\ StringAt(totalAssets, 2))

increaseInRoa(netProfit, totalAssets) ==
    Gt(calculateRoa(FromEnd(netProfit, 2), FromEnd(totalAssets, 1)),
       calculateRoa(FromEnd(netProfit, 3), FromEnd(totalAssets, 2)))

\* Check 1.1 is entered with len(netProfit) > 0 && len(totalAssets) > 0 and
\* then reads netProfit[len-2].
RoaCheckEntered(netProfit, totalAssets) ==
    Len(netProfit) > 0 /\ Len(totalAssets) > 0

RoaCheckPanics(netProfit, totalAssets) ==
    /\ RoaCheckEntered(netProfit, totalAssets)
    /\ ~(StringAt(netProfit, 2) /\ StringAt(totalAssets, 1))

\* Bit with a check that adds 2 to the score.
BitAddsTwo(b) == IF b THEN 2 ELSE 0

\* score++ when the check passes.
Bit(b) == IF b THEN 1 ELSE 0

\* calculateProfitabilityScore(stock)
calculateProfitabilityScore(stock) ==
    LET netProfit == getNestedArrayField(stock, <<Key.profitLoss, Label.NetProfit>>)
        totalAssets == getNestedArrayField(stock, <<Key.balanceSheet, Label.TotalAssets>>)
        cashFlowOps == getNestedArrayField(stock, <<Key.cashFlows, Label.CashFromOps>>)
    IN  IF RoaCheckPanics(netProfit, totalAssets)
           \/ increaseInRoaPanics(netProfit, totalAssets)
        THEN Panic
        ELSE Val(
            Bit(/\ RoaCheckEntered(netProfit, totalAssets)
                /\ Gt(calculateRoa(FromEnd(netProfit, 2), FromEnd(totalAssets, 1)),
                      Ratio(0, 1)))
            + Bit(/\ Len(cashFlowOps) > 1
                  /\ toFloat(FromEnd(cashFlowOps, 1)) > toFloat(FromEnd(cashFlowOps, 2)))
            + Bit(increaseInRoa(netProfit, totalAssets))
            + Bit(/\ Len(cashFlowOps) > 0
                  /\ Len(netProfit) > 1
                  /\ toFloat(FromEnd(cashFlowOps, 1)) > toFloat(FromEnd(netProfit, 2))),
            1)

\* calculateLeverageScore(stock)
calculateLeverageScore(stock) ==
    LET borrowings == getNestedArrayField(stock, <<Key.balanceSheet, Label.Borrowings>>)
        totalAssets == getNestedArrayField(stock, <<Key.balanceSheet, Label.TotalAssets>>)
        otherAssets == getNestedArrayField(stock, <<Key.balanceSheet, Label.OtherAssets>>)
        otherLiabilities ==
            getNestedArrayField(stock, <<Key.balanceSheet, Label.OtherLiabilities>>)
        equityCapital == getNestedArrayField(stock, <<Key.balanceSheet, Label.EquityCapital>>)
    IN  Val(
            Bit(/\ Len(borrowings) > 1
                /\ Len(totalAssets) > 1
                /\ Le(Ratio(toFloat(FromEnd(borrowings, 1)),
                            toFloat(FromEnd(totalAssets, 1))),
                      Ratio(toFloat(FromEnd(borrowings, 2)),
                            toFloat(FromEnd(totalAssets, 2)))))
            + Bit(/\ Len(otherAssets) > 1
                  /\ Len(otherLiabilities) > 1
                  /\ Gt(Ratio(toFloat(FromEnd(otherAssets, 1)),
                              toFloat(FromEnd(otherLiabilities, 1))),
                        Ratio(toFloat(FromEnd(otherAssets, 2)),
                              toFloat(FromEnd(otherLiabilities, 2)))))
            + Bit(/\ Len(equityCapital) > 1
                  /\ toFloat(FromEnd(equityCapital, 1))
                         <= toFloat(FromEnd(equityCapital, 2))),
            1)

\* calculateOperatingEfficiencyScore(stock)
calculateOperatingEfficiencyScore(stock) ==
    LET opm == getNestedArrayField(stock, <<Key.profitLoss, Label.OPM>>)
        sales == getNestedArrayField(stock, <<Key.profitLoss, Label.Sales>>)
        totalAssets == getNestedArrayField(stock, <<Key.balanceSheet, Label.TotalAssets>>)
    IN  Val(
            Bit(/\ Len(opm) > 2
                /\ toFloat(FromEnd(opm, 2)) > toFloat(FromEnd(opm, 3)))
            + Bit(/\ Len(sales) > 2
                  /\ Len(totalAssets) > 1
                  /\ Gt(Ratio(toFloat(FromEnd(sales, 2)),
                              toFloat(FromEnd(totalAssets, 1))),
                        Ratio(toFloat(FromEnd(sales, 3)),
                              toFloat(FromEnd(totalAssets, 2))))),
            1)

\* generateFScore(stock): the three sub-scores added, or the panic of the
\* first one.
generateFScore(stock) ==
    LET profitability == calculateProfitabilityScore(stock)
    IN  IF profitability.panics THEN Panic
        ELSE Val(profitability.n + calculateLeverageScore(stock).n
                 + calculateOperatingEfficiencyScore(stock).n, 1)

\* ------------------------------------------------------------ text samples

\* Literals of the header pattern, the end marker and fmt's nil.
Lit ==
    [name |->
        <<"n", "a", "m", "e">>,
     of |->
        <<"o", "f">>,
     the |->
        <<"t", "h", "e">>,
     instrument |->
        <<"i", "n", "s", "t", "r", "u", "m", "e", "n", "t">>,
     subtotal |->
        <<"s", "u", "b", "t", "o", "t", "a", "l">>,
     total |->
        <<"t", "o", "t", "a", "l">>,
     nil |->
        <<"<", "n", "i", "l", ">">>,
     NameOfTheInstrument |->
        <<"N", "a", "m", "e", " ", "o", "f", " ", "t", "h", "e", " ", "I", "n", "s", "t", "r", "u", "m", "e", "n", "t">>]

\* The names mapValues knows, each with the short name it maps to.
Known ==
    [SunPharma |->
        <<"S", "u", "n", " ", "P", "h", "a", "r", "m", "a", "c", "e", "u", "t", "i", "c", "a", "l", " ", "I", "n", "d", "u", "s", "t", "r", "i", "e", "s", " ", "L", "i", "m", "i", "t", "e", "d">>,
     SunPharmaShort |->
        <<"S", "u", "n", " ", "P", "h", "a", "r", "m", "a", ".", "I", "n", "d", "s", ".">>,
     KEC |->
        <<"K", "E", "C", " ", "I", "n", "t", "e", "r", "n", "a", "t", "i", "o", "n", "a", "l", " ", "L", "i", "m", "i", "t", "e", "d">>,
     KECShort |->
        <<"K", " ", "E", " ", "C", " ", "I", "n", "t", "l", ".">>,
     Sandhar |->
        <<"S", "a", "n", "d", "h", "a", "r", " ", "T", "e", "c", "h", "n", "o", "l", "o", "g", "i", "e", "s", " ", "L", "i", "m", "i", "t", "e", "d">>,
     SandharShort |->
        <<"S", "a", "n", "d", "h", "a", "r", " ", "T", "e", "c", "h">>,
     Samvardhana |->
        <<"S", "a", "m", "v", "a", "r", "d", "h", "a", "n", "a", " ", "M", "o", "t", "h", "e", "r", "s", "o", "n", " ", "I", "n", "t", "e", "r", "n", "a", "t", "i", "o", "n", "a", "l", " ", "L", "i", "m", "i", "t", "e", "d">>,
     SamvardhanaShort |->
        <<"S", "a", "m", "v", "a", "r", "d", "h", ".", " ", "M", "o", "t", "h", "e", ".">>,
     Coromandel |->
        <<"C", "o", "r", "o", "m", "a", "n", "d", "e", "l", " ", "I", "n", "t", "e", "r", "n", "a", "t", "i", "o", "n", "a", "l", " ", "L", "i", "m", "i", "t", "e", "d">>,
     CoromandelShort |->
        <<"C", "o", "r", "o", "m", "a", "n", "d", "e", "l", " ", "I", "n", "t", "e", "r">>]

\* The words of the query clean-up.
Word ==
    [Corporation |->
        <<" ", "C", "o", "r", "p", "o", "r", "a", "t", "i", "o", "n", " ">>,
     corporation |->
        <<" ", "c", "o", "r", "p", "o", "r", "a", "t", "i", "o", "n", " ">>,
     Corpn |->
        <<" ", "C", "o", "r", "p", "n", " ">>,
     Limited |->
        <<" ", "L", "i", "m", "i", "t", "e", "d">>,
     limited |->
        <<" ", "l", "i", "m", "i", "t", "e", "d">>,
     Ltd |->
        <<" ", "L", "t", "d", " ">>,
     and |->
        <<" ", "a", "n", "d", " ">>,
     And |->
        <<" ", "A", "n", "d", " ">>,
     amp |->
        <<" ", "&", " ">>]

\* Cell texts of the sample sheets and the page address of a search match.
Sample ==
    [Acme |->
        <<"A", "c", "m", "e", " ", "L", "i", "m", "i", "t", "e", "d">>,
     AcmeLtd |->
        <<"A", "c", "m", "e", " ", "L", "t", "d">>,
     Bolt |->
        <<"B", "o", "l", "t", " ", "L", "t", "d">>,
     SubTotal |->
        <<"S", "u", "b", " ", "T", "o", "t", "a", "l">>,
     url |->
        <<"/", "c", "o", "m", "p", "a", "n", "y", "/", "A", "C", "M", "E", "/">>]

\* Column heads of the quarterly table.
Month ==
    [Mar |->
        <<"M", "a", "r", " ", "2", "0", "2", "4">>,
     Jun |->
        <<"J", "u", "n", " ", "2", "0", "2", "4">>,
     Sep |->
        <<"S", "e", "p", " ", "2", "0", "2", "4">>]

\* Row labels as the fetched page spells them: U+00A0 before the "+".
PageLabel ==
    [NetProfit |->
        <<"N", "e", "t", " ", "P", "r", "o", "f", "i", "t", NBSP, "+">>,
     CashFromOps |->
        <<"C", "a", "s", "h", " ", "f", "r", "o", "m", " ", "O", "p", "e", "r", "a", "t", "i", "n", "g", " ", "A", "c", "t", "i", "v", "i", "t", "y", NBSP, "+">>,
     Borrowings |->
        <<"B", "o", "r", "r", "o", "w", "i", "n", "g", "s", NBSP, "+">>,
     OtherAssets |->
        <<"O", "t", "h", "e", "r", " ", "A", "s", "s", "e", "t", "s", NBSP, "+">>,
     OtherLiabilities |->
        <<"O", "t", "h", "e", "r", " ", "L", "i", "a", "b", "i", "l", "i", "t", "i", "e", "s", NBSP, "+">>,
     Sales |->
        <<"S", "a", "l", "e", "s", NBSP, "+">>]

\* ---------------------------------------------------- getMarketCapCategory

\* fmt.Sprintf("%v", v) for the values a stored marketCap takes: the text
\* itself, or "<nil>" for a missing field.
Sprintf(v) == IF IsStr(v) THEN v.s ELSE Lit.nil

\* getMarketCapCategory with both thresholds themselves excluded.
getMarketCapCategoryStrict(marketCapValue) ==
    LET marketCap == ParseFloat(ReplaceAll(marketCapValue, <<",">>, <<>>)).f
    IN  IF marketCap > 20000 * Unit THEN "Large Cap"
        ELSE IF marketCap > 5000 * Unit /\ marketCap <= 20000 * Unit THEN "Mid Cap"
        ELSE IF marketCap <= 5000 * Unit THEN "Small Cap"
        ELSE "Unknown Category"

\* getMarketCapCategory(marketCapValue): a parse error is logged and the
\* comparisons go on with the 0 that ParseFloat returned.
getMarketCapCategory(marketCapValue) ==
    LET marketCap == ParseFloat(ReplaceAll(marketCapValue, <<",">>, <<>>)).f
    IN  IF marketCap >= 20000 * Unit THEN "Large Cap"
        ELSE IF marketCap >= 5000 * Unit /\ marketCap < 20000 * Unit THEN "Mid Cap"
        ELSE IF marketCap < 5000 * Unit THEN "Small Cap"
        ELSE "Unknown Category"

\* ------------------------------------------------------------ header match

\* normalizeString(s)
normalizeString(s) == ToLower(TrimSpace(s))

\* The end of a run of \s* from position i (the pattern's \s is ASCII only).
RECURSIVE SkipWs(_, _)
SkipWs(s, i) == IF i <= Len(s) /\ s[i] = " " THEN SkipWs(s, i + 1) ELSE i

\* name\s*of\s*(the)?\s*instrument matched with its first character at i.
NamePatternAt(s, i) ==
    /\ HasPrefixAt(s, i, Lit.name)
    /\ LET j == SkipWs(s, i + Len(Lit.name))
       IN  /\ HasPrefixAt(s, j, Lit.of)
           /\ LET k == SkipWs(s, j + Len(Lit.of))
              IN  \/ HasPrefixAt(s, k, Lit.instrument)
                  \/ /\ HasPrefixAt(s, k, Lit.the)
                     /\ HasPrefixAt(s, SkipWs(s, k + Len(Lit.the)), Lit.instrument)

\* matchHeader(cellValue, {`name\s*of\s*(the)?\s*instrument`})
matchHeader(cellValue) ==
    LET normalizedValue == normalizeString(cellValue)
    IN  \E i \in 1..Len(normalizedValue) : NamePatternAt(normalizedValue, i)

\* The row holds a cell that matches the instrument-name pattern.
IsHeaderRow(row) == \E i \in DOMAIN row : matchHeader(row[i])

\* headerMap["Name of the Instrument"] after the scan of the header row: the
\* last matching column.  The five other keys of headerMap only copy cells
\* into the row record and are left out.
NameColumn(row) ==
    CHOOSE i \in DOMAIN row :
        /\ matchHeader(normalizeString(row[i]))
        /\ \A j \in DOMAIN row : matchHeader(normalizeString(row[j])) => j <= i

\* IsStopMarker without the lowering of the joined row.
IsStopMarkerCaseSensitive(row) ==
    LET joinedRow == Join(row)
    IN  \/ Contains(joinedRow, Lit.subtotal)
        \/ Contains(joinedRow, Lit.total)

\* The end marker: the joined row holds "subtotal" or "total" in any case.
IsStopMarker(row) ==
    LET joinedRow == Join(row)
    IN  \/ Contains(ToLower(joinedRow), Lit.subtotal)
        \/ Contains(ToLower(joinedRow), Lit.total)

\* stockDetail["Name of the Instrument"]: the cell under the header, or "".
NameCell(row, col) == IF col <= Len(row) THEN row[col] ELSE <<>>

\* mapValues: the fixed renames applied to an instrument name.
mapValues(instrumentName) ==
    CASE instrumentName = Known.SunPharma -> Known.SunPharmaShort
      [] instrumentName = Known.KEC -> Known.KECShort
      [] instrumentName = Known.Sandhar -> Known.SandharShort
      [] instrumentName = Known.Samvardhana -> Known.SamvardhanaShort
      [] instrumentName = Known.Coromandel -> Known.CoromandelShort
      [] OTHER -> instrumentName

\* The query string of the text search.
CleanQuery(instrumentName) ==
    ReplaceAll(ReplaceAll(ReplaceAll(ReplaceAll(ReplaceAll(ReplaceAll(
        instrumentName,
        Word.Corporation, Word.Corpn), Word.corporation, Word.Corpn),
        Word.Limited, Word.Ltd), Word.limited, Word.Ltd),
        Word.and, Word.amp), Word.And, Word.amp)

\* ---------------------------------------------------------- sample records

\* One row of the peers table as fetchPeerData stores it (text fields).
PeerRow(pe, cap, yield, roce, sales, np) ==
    Map((Key.pe :> Str(pe)) @@ (Key.market_cap :> Str(cap))
        @@ (Key.div_yield :> Str(yield)) @@ (Key.roce :> Str(roce))
        @@ (Key.sales_qtr :> Str(sales)) @@ (Key.np_qtr :> Str(np)))

\* One label of quarterlyResults as fetchCompanyData builds it: one map per
\* value column, each holding the single pair month -> value.
QuarterColumn(month, value) == Map(month :> Str(value))

\* What fetchCompanyData can hand to the upsert.  First the fields the upsert
\* sets from a page that carries every section, with three years of profit
\* and loss and two balance-sheet years; then the page of a newly listed
\* company, with one year of profit and loss.
Pages ==
    {
        (Key.stockPE :> Str(<<"1", "2">>))
        @@ (Key.marketCap :> Str(<<"2", "5", ",", "0", "0", "0">>))
        @@ (Key.dividendYield :> Str(<<"1", ".", "5">>))
        @@ (Key.roce :> Str(<<"1", "8">>))
        @@ (Key.peers :> Arr(<<
                PeerRow(<<"2", "0">>, <<"9", "0", "0">>, <<"1">>, <<"1", "5">>,
                        <<"1", "0", "0">>, <<"1", "0">>),
                PeerRow(<<"1", "0">>, <<"3", "0", ",", "0", "0", "0">>, <<"2">>,
                        <<"2", "0">>, <<"-", "5">>, <<"-", "1">>)>>))
        @@ (Key.quarterlyResults :> Map(
                PageLabel.Sales :> Arr(<<QuarterColumn(Month.Mar, <<"1", "0">>),
                                  QuarterColumn(Month.Jun, <<"1", "2">>)>>)))
        @@ (Key.profitLoss :> Map(
                (PageLabel.Sales :> Arr(<<Str(<<"2">>), Str(<<"3">>), Str(<<"4">>)>>))
                @@ (Label.OPM :> Arr(<<Str(<<"1", "0", "%">>), Str(<<"1", "2", "%">>),
                                   Str(<<"1", "1", "%">>)>>))
                @@ (PageLabel.NetProfit :> Arr(<<Str(<<"1">>), Str(<<"2">>), Str(<<"3">>)>>))))
        @@ (Key.balanceSheet :> Map(
                (Label.TotalAssets :> Arr(<<Str(<<"2">>), Str(<<"4">>)>>))
                @@ (PageLabel.Borrowings :> Arr(<<Str(<<"1">>), Str(<<"1">>)>>))
                @@ (PageLabel.OtherAssets :> Arr(<<Str(<<"1">>), Str(<<"3">>)>>))
                @@ (PageLabel.OtherLiabilities :> Arr(<<Str(<<"2">>), Str(<<"2">>)>>))
                @@ (Label.EquityCapital :> Arr(<<Str(<<"1">>), Str(<<"1">>)>>))))
        @@ (Key.cashFlows :> Map(
                PageLabel.CashFromOps :> Arr(<<Str(<<"1">>), Str(<<"3">>)>>))),
        (Key.stockPE :> Str(<<"3", "0">>))
        @@ (Key.marketCap :> Str(<<"9", "0", "0">>))
        @@ (Key.dividendYield :> Str(<<"0">>))
        @@ (Key.roce :> Str(<<"7">>))
        @@ (Key.peers :> Nil)
        @@ (Key.quarterlyResults :> Map(EmptyMap))
        @@ (Key.profitLoss :> Map(PageLabel.NetProfit :> Arr(<<Str(<<"5">>)>>)))
        @@ (Key.balanceSheet :> Map(Label.TotalAssets :> Arr(<<Str(<<"9">>)>>)))
        @@ (Key.cashFlows :> Nil)
    }

\* The names the store and the live search know.
Names == {Sample.AcmeLtd, Sample.Bolt}

\* The document the store holds under name after an upsert of page: the
\* fields of $set written over what was there, name set by the filter.
Upserted(old, name, page) == page @@ old @@ (Key.name :> Str(name))

\* The document stored under name, empty when there is none.
Stored(st, name) == IF name \in DOMAIN st THEN st[name] ELSE EmptyMap

\* The stores a run can start from: empty, or one document.
EmptyStore == [n \in {} |-> EmptyMap]

InitialStores ==
    {EmptyStore}
    \cup {(Sample.AcmeLtd :> Upserted((Key.url :> Str(Sample.url)), Sample.AcmeLtd, page)) :
            page \in Pages}

\* The rows a sheet is made of: an empty row, the header row, an instrument
\* row, a row whose name cell is blank, and an end-marker row.
RowSamples ==
    { <<>>,
      <<Lit.NameOfTheInstrument>>,
      <<Sample.Acme>>,
      <<<<>>>>,
      <<Sample.SubTotal>> }

\* -------------------------------------------------------------- the upload

\* All sequences over S of length at most n.
RECURSIVE SeqsUpTo(_, _)
SeqsUpTo(S, n) ==
    IF n = 0 THEN {<<>>}
    ELSE LET shorter == SeqsUpTo(S, n - 1)
         IN  shorter \cup {Append(s, x) : s \in shorter, x \in S}

\* The uploads of at most n sheets that hold at most budget rows together.
RECURSIVE Batches(_, _)
Batches(n, budget) ==
    IF n = 0 THEN {<<>>}
    ELSE {<<>>} \cup
         UNION {{<<s>> \o b : b \in Batches(n - 1, budget - Len(s))} :
                  s \in SeqsUpTo(RowSamples, budget)}

\* The relevance scores a text search returns.
Scores == {Unit \div 2, Unit, 2 * Unit}

VARIABLES
    pc,             \* where the handler is: start, sheets, rows, done, ...
    grids,          \* the rows of every sheet of the upload, in order
    sheet,          \* the sheet being read (0 before the first)
    rowNo,          \* rows of that sheet already read
    headerFound,    \* the header row of the sheet has been seen
    headerMap,      \* column of "Name of the Instrument" (0 while unset)
    stopExtracting, \* the end marker of the sheet has been seen
    store,          \* the collection: name -> document
    log,            \* the store and live-source calls made, in order
    out,            \* the chunks handed to the response writer, in order
    subject,        \* the argument of a scorer under check
    result          \* what the scorer returned for it

vars ==
    <<pc, grids, sheet, rowNo, headerFound, headerMap, stopExtracting, store,
      log, out, subject, result>>

\* The row the loop reads next.
NextRow == grids[sheet][rowNo + 1]

\* range rows has a row left.
MoreRows == pc = "rows" /\ rowNo < Len(grids[sheet])

\* One call to the store or the live source.
Call(op, res, arg) ==
    [op |-> op, sheet |-> sheet, row |-> rowNo + 1, res |-> res, arg |-> arg]

\* One chunk written for the current row: the marshalled stockDetail and
\* the newline appended to it; err is the error Write returned.
RowChunk(stockDetail, err) ==
    [kind |-> "row", sheet |-> sheet, row |-> rowNo + 1, err |-> err,
     detail |-> stockDetail, newline |-> TRUE]

\* OnLookupError leaving the row loop.
OnLookupErrorBreaks == "break"

\* What each outcome does to the row loop.
OnLookupError == "continue"
OnNoCompany == "continue"
OnFetchError == "continue"
OnStopMarker == "break"
OnWriteError == "break"

\* The loop moves past the current row, or leaves the rows of the sheet.
LoopStep(how) ==
    /\ rowNo' = rowNo + 1
    /\ pc' = IF how = "break" THEN "sheets" ELSE "rows"

\* UseStoredRecord with the threshold itself excluded.
UseStoredRecordAboveOne(score) == score > 1 * Unit

\* score >= 1: the stored record is used as it is.
UseStoredRecord(score) == score >= 1 * Unit

\* UpsertKey taking the name the sheet gives.
UpsertKeyFromSheet(first, instrumentName) == instrumentName

\* filter of the update: the name of the first search result.
UpsertKey(first, instrumentName) == first

\* The row reaches the instrument lookup.
IsInstrumentRow(row) ==
    /\ Len(row) > 0
    /\ headerFound
    /\ ~IsStopMarker(row)
    /\ ~stopExtracting
    /\ NameCell(row, headerMap) # <<>>

\* instrumentName after the fixed renames.
InstrumentName(row) == mapValues(NameCell(row, headerMap))

\* stockDetail of a row served from the stored record.
StoredDetail(row, doc, rate, fScore) ==
    ("Name of the Instrument" :> Str(InstrumentName(row)))
    @@ ("marketCapValue" :> Get(doc, Key.marketCap))
    @@ ("url" :> Get(doc, Key.url))
    @@ ("marketCap" :> getMarketCapCategory(Sprintf(Get(doc, Key.marketCap))))
    @@ ("stockRate" :> rate)
    @@ ("f_score" :> fScore)

\* stockDetail of a row that went through the live source.
FetchedDetail(row) == "Name of the Instrument" :> Str(InstrumentName(row))

\* Form parsing, the empty file list or the upload client fail: an error
\* body is written and the handler returns.
Reject ==
    /\ pc = "start"
    /\ pc' = "rejected"
    /\ out' = Append(out, [kind |-> "error"])
    /\ UNCHANGED <<grids, sheet, rowNo, headerFound, headerMap, stopExtracting,
                   store, log, subject, result>>

\* The upload is accepted: the sheets of its readable files, in order.
Accept ==
    /\ pc = "start"
    /\ \E b \in Batches(MaxSheets, MaxRows) : grids' = b
    /\ pc' = "sheets"
    /\ UNCHANGED <<sheet, rowNo, headerFound, headerMap, stopExtracting, store,
                   log, out, subject, result>>

\* GetRows fails for the next sheet: the sheet is skipped.
SkipSheet ==
    /\ pc = "sheets"
    /\ sheet < Len(grids)
    /\ sheet' = sheet + 1
    /\ rowNo' = 0
    /\ log' = Append(log, [op |-> "getrows", sheet |-> sheet + 1, row |-> 0,
                           res |-> "error", arg |-> 0])
    /\ UNCHANGED <<pc, grids, headerFound, headerMap, stopExtracting, store,
                   out, subject, result>>

\* The rows of the next sheet are read and its loop starts.
OpenSheet ==
    /\ pc = "sheets"
    /\ sheet < Len(grids)
    /\ sheet' = sheet + 1
    /\ rowNo' = 0
    /\ headerFound' = FALSE
    /\ headerMap' = 0
    /\ stopExtracting' = FALSE
    /\ pc' = "rows"
    /\ UNCHANGED <<grids, store, log, out, subject, result>>

\* The row loop runs out of rows.
EndOfRows ==
    /\ pc = "rows"
    /\ rowNo = Len(grids[sheet])
    /\ pc' = "sheets"
    /\ UNCHANGED <<grids, sheet, rowNo, headerFound, headerMap, stopExtracting,
                   store, log, out, subject, result>>

\* len(row) == 0
EmptyRow ==
    /\ MoreRows
    /\ Len(NextRow) = 0
    /\ LoopStep("continue")
    /\ UNCHANGED <<grids, sheet, headerFound, headerMap, stopExtracting, store,
                   log, out, subject, result>>

\* No header yet: the row is scanned for the instrument-name header.
ScanForHeader ==
    /\ MoreRows
    /\ Len(NextRow) > 0
    /\ ~headerFound
    /\ headerFound' = IsHeaderRow(NextRow)
    /\ headerMap' = IF IsHeaderRow(NextRow) THEN NameColumn(NextRow) ELSE headerMap
    /\ LoopStep("continue")
    /\ UNCHANGED <<grids, sheet, stopExtracting, store, log, out, subject, result>>

\* The end marker: stopExtracting is set and the loop is left.
StopMarker ==
    /\ MoreRows
    /\ Len(NextRow) > 0
    /\ headerFound
    /\ IsStopMarker(NextRow)
    /\ stopExtracting' = TRUE
    /\ LoopStep(OnStopMarker)
    /\ UNCHANGED <<grids, sheet, headerFound, headerMap, store, log, out,
                   subject, result>>

\* A row past the header with no instrument name (or read after the end
\* marker): nothing is done for it.
SkipRow ==
    /\ MoreRows
    /\ Len(NextRow) > 0
    /\ headerFound
    /\ ~IsStopMarker(NextRow)
    /\ ~IsInstrumentRow(NextRow)
    /\ LoopStep("continue")
    /\ UNCHANGED <<grids, sheet, headerFound, headerMap, stopExtracting, store,
                   log, out, subject, result>>

\* FindOne fails (no document matches, or the store is unreachable).
LookupError ==
    /\ MoreRows
    /\ IsInstrumentRow(NextRow)
    /\ log' = Append(log, Call("lookup", "error",
                               CleanQuery(InstrumentName(NextRow))))
    /\ LoopStep(OnLookupError)
    /\ UNCHANGED <<grids, sheet, headerFound, headerMap, stopExtracting, store,
                   out, subject, result>>

\* The top match scores >= 1: the row is rated from the stored document
\* and written.
UseStored ==
    /\ MoreRows
    /\ IsInstrumentRow(NextRow)
    /\ \E name \in DOMAIN store, score \in Scores, err \in BOOLEAN :
         LET doc == store[name]
             rate == rateStock(doc)
             fScore == generateFScore(doc)
         IN  /\ UseStoredRecord(score)
             /\ ~rate.panics
             /\ ~fScore.panics
             /\ log' = Append(log, Call("lookup", "ok", score))
             /\ out' = Append(out, RowChunk(
                           StoredDetail(NextRow, doc, rate.n, fScore.n), err))
             /\ LoopStep(IF err THEN OnWriteError ELSE "continue")
    /\ UNCHANGED <<grids, sheet, headerFound, headerMap, stopExtracting, store,
                   subject, result>>

\* The top match scores >= 1 and a scorer panics on the stored document:
\* the handler is unwound where it stands.
UseStoredPanics ==
    /\ MoreRows
    /\ IsInstrumentRow(NextRow)
    /\ \E name \in DOMAIN store, score \in Scores :
         /\ UseStoredRecord(score)
         /\ IF rateStock(store[name]).panics
            THEN TRUE
            ELSE generateFScore(store[name]).panics
         /\ log' = Append(log, Call("lookup", "ok", score))
    /\ rowNo' = rowNo + 1
    /\ pc' = "panicked"
    /\ UNCHANGED <<grids, sheet, headerFound, headerMap, stopExtracting, store,
                   out, subject, result>>

\* The top match scores < 1 and searchCompany fails or finds nothing.
NoCompany ==
    /\ MoreRows
    /\ IsInstrumentRow(NextRow)
    /\ DOMAIN store # {}
    /\ \E score \in Scores :
         /\ ~UseStoredRecord(score)
         /\ log' = log \o <<Call("lookup", "ok", score),
                            Call("search", "none", InstrumentName(NextRow))>>
    /\ LoopStep(OnNoCompany)
    /\ UNCHANGED <<grids, sheet, headerFound, headerMap, stopExtracting, store,
                   out, subject, result>>

\* The top match scores < 1, the search finds first, fetchCompanyData fails.
FetchError ==
    /\ MoreRows
    /\ IsInstrumentRow(NextRow)
    /\ DOMAIN store # {}
    /\ \E score \in Scores, first \in Names :
         /\ ~UseStoredRecord(score)
         /\ log' = log \o <<Call("lookup", "ok", score),
                            Call("search", "found", first),
                            Call("fetch", "error", first)>>
    /\ LoopStep(OnFetchError)
    /\ UNCHANGED <<grids, sheet, headerFound, headerMap, stopExtracting, store,
                   out, subject, result>>

\* The top match scores < 1: the first search result is fetched and
\* upserted under its name; whether or not the update succeeds, the row is
\* then written as it stands.
Refetch ==
    /\ MoreRows
    /\ IsInstrumentRow(NextRow)
    /\ DOMAIN store # {}
    /\ \E score \in Scores, first \in Names, page \in Pages,
          updated \in BOOLEAN, err \in BOOLEAN :
         /\ ~UseStoredRecord(score)
         /\ log' = log \o <<Call("lookup", "ok", score),
                            Call("search", "found", first),
                            Call("fetch", "ok", first),
                            Call("upsert", IF updated THEN "ok" ELSE "error",
                                 UpsertKey(first, InstrumentName(NextRow)))>>
         /\ store' =
              IF updated
              THEN LET key == UpsertKey(first, InstrumentName(NextRow))
                   IN  (key :> Upserted(Stored(store, key), key, page)) @@ store
              ELSE store
         /\ out' = Append(out, RowChunk(FetchedDetail(NextRow), err))
         /\ LoopStep(IF err THEN OnWriteError ELSE "continue")
    /\ UNCHANGED <<grids, sheet, headerFound, headerMap, stopExtracting,
                   subject, result>>

\* After the last sheet of the last file: the completion marker.
Finish ==
    /\ pc = "sheets"
    /\ sheet = Len(grids)
    /\ out' = Append(out, [kind |-> "marker"])
    /\ pc' = "done"
    /\ UNCHANGED <<grids, sheet, rowNo, headerFound, headerMap, stopExtracting,
                   store, log, subject, result>>

Init ==
    /\ pc = "start"
    /\ grids = <<>>
    /\ sheet = 0
    /\ rowNo = 0
    /\ headerFound = FALSE
    /\ headerMap = 0
    /\ stopExtracting = FALSE
    /\ store \in InitialStores
    /\ log = <<>>
    /\ out = <<>>
    /\ subject = Nil
    /\ result = Nil

Next ==
    \/ Reject
    \/ Accept
    \/ SkipSheet
    \/ OpenSheet
    \/ EndOfRows
    \/ EmptyRow
    \/ ScanForHeader
    \/ StopMarker
    \/ SkipRow
    \/ LookupError
    \/ UseStored
    \/ UseStoredPanics
    \/ NoCompany
    \/ FetchError
    \/ Refetch
    \/ Finish

Spec == Init /\ [][Next]_vars

\* ------------------------------------------------- the scorers on their own

\* The targets compareWithPeers is applied to; the last one has a market
\* cap of 1000 and a dividend yield of 0.01.
StockSamples ==
    {Stock(pe * Unit, level * Unit, level * Unit, level * Unit,
           quarter * Unit, quarter * Unit) :
        pe \in {5, 12, 30}, level \in {1, 3}, quarter \in {0, 3}}
    \cup {Stock(12 * Unit, 1000 * Unit, Unit \div 100, 3 * Unit,
                3 * Unit, 3 * Unit)}

\* The peers table rows it is applied to; the last one has a thousands
\* separator and a percent sign in its text.
PeerSamples ==
    {PeerRow(pe, level, level, level, quarter, quarter) :
        pe \in {<<"1", "0">>, <<"2", "0">>},
        level \in {<<"2">>, <<"4">>},
        quarter \in {<<"-", "1">>, <<"2">>}}
    \cup {PeerRow(<<"1", "0">>, <<"1", ",", "2", "3", "4">>, <<"2", "%">>,
                  <<"2">>, <<"2">>, <<"2">>)}

\* The peers values: no list at all, or a list of up to MaxPeers peers and
\* the median record.
PeerLists ==
    {Nil, Str(<<>>)} \cup {Arr(a) : a \in SeqsUpTo(PeerSamples, MaxPeers + 1)}

\* The values a series is drawn from.
SeriesTexts == {Str(<<"1">>), Str(<<"2">>)}

SeriesSamples == SeqsUpTo(SeriesTexts, MaxSeries)

\* A record whose Net Profit, Total Assets and operating cash flow series
\* are np, ta and cf; the six other series reuse the three.
SeriesRecord(np, ta, cf) ==
    (Key.name :> Str(Sample.AcmeLtd))
    @@ (Key.profitLoss :> Map(
            (PageLabel.NetProfit :> Arr(np)) @@ (PageLabel.Sales :> Arr(cf))
            @@ (Label.OPM :> Arr(ta))))
    @@ (Key.balanceSheet :> Map(
            (Label.TotalAssets :> Arr(ta)) @@ (PageLabel.Borrowings :> Arr(np))
            @@ (PageLabel.OtherAssets :> Arr(cf)) @@ (PageLabel.OtherLiabilities :> Arr(np))
            @@ (Label.EquityCapital :> Arr(cf))))
    @@ (Key.cashFlows :> Map(PageLabel.CashFromOps :> Arr(cf)))

\* The records generateFScore is applied to: every length of the three
\* series up to MaxSeries, the two sample pages and a record with no
\* section at all.
FScoreRecords ==
    {SeriesRecord(np, ta, cf) :
        np \in SeriesSamples, ta \in SeriesSamples, cf \in SeriesSamples}
    \cup {Upserted(EmptyMap, Sample.AcmeLtd, page) : page \in Pages}
    \cup {Key.name :> Str(Sample.AcmeLtd)}

\* The handler's variables, at rest while a scorer is checked on its own.
HandlerIdle ==
    /\ grids = <<>>
    /\ sheet = 0
    /\ rowNo = 0
    /\ headerFound = FALSE
    /\ headerMap = 0
    /\ stopExtracting = FALSE
    /\ store = EmptyStore
    /\ log = <<>>
    /\ out = <<>>

HandlerUnchanged ==
    UNCHANGED <<grids, sheet, rowNo, headerFound, headerMap, stopExtracting,
                store, log, out>>

\* compareWithPeers applied to one target and one peers value.
InitPeers ==
    /\ pc = "apply"
    /\ subject \in [stock : StockSamples, peers : PeerLists]
    /\ result = Val(0, 1)
    /\ HandlerIdle

ComparePeers ==
    /\ pc = "apply"
    /\ result' = compareWithPeers(subject.stock, subject.peers)
    /\ pc' = "applied"
    /\ UNCHANGED subject
    /\ HandlerUnchanged

SpecPeers == InitPeers /\ [][ComparePeers]_vars

\* generateFScore applied to one record.
InitFScore ==
    /\ pc = "apply"
    /\ subject \in FScoreRecords
    /\ result = Val(0, 1)
    /\ HandlerIdle

ScoreRecord ==
    /\ pc = "apply"
    /\ result' = generateFScore(subject)
    /\ pc' = "applied"
    /\ UNCHANGED subject
    /\ HandlerUnchanged

SpecFScore == InitFScore /\ [][ScoreRecord]_vars

\* One period entry of a label: a map from column names to values, or an
\* element that is no map.
TrendEntries ==
    {QuarterColumn(Month.Mar, v.s) : v \in SeriesTexts}
    \cup {QuarterColumn(Month.Jun, v.s) : v \in SeriesTexts}
    \cup {Map((Month.Mar :> v) @@ (Month.Jun :> w)) :
            v \in SeriesTexts, w \in SeriesTexts}
    \cup {Str(<<"1">>)}

\* The quarterlyResults values analyzeTrend is applied to: no map at all,
\* one label with up to MaxSeries entries, and the same beside a second
\* label.
TrendInputs ==
    {Nil}
    \cup {Map(Label.Sales :> Arr(s)) : s \in SeqsUpTo(TrendEntries, MaxSeries)}
    \cup {Map((Label.Sales :> Arr(s)) @@ (Label.OPM :> x)) :
            s \in SeqsUpTo(TrendEntries, MaxSeries),
            x \in {Str(<<"1">>),
                   Arr(<<QuarterColumn(Month.Mar, <<"1">>),
                         QuarterColumn(Month.Mar, <<"2">>)>>)}}

\* analyzeTrend applied to one quarterlyResults value.
InitTrend ==
    /\ pc = "apply"
    /\ subject \in TrendInputs
    /\ result = Val(0, 1)
    /\ HandlerIdle

ScoreTrend ==
    /\ pc = "apply"
    /\ result' = analyzeTrend(subject)
    /\ pc' = "applied"
    /\ UNCHANGED subject
    /\ HandlerUnchanged

SpecTrend == InitTrend /\ [][ScoreTrend]_vars

\* ------------------------------------------- quarterly results extraction

\* months: the trimmed texts of the th cells, without the empty ones and
\* the "-" ones.
months(ths) ==
    SelectSeq([i \in DOMAIN ths |-> TrimSpace(ths[i])],
              LAMBDA month : month # <<>> /\ month # <<"-">>)

\* The td cells of a row that pass colIndex > 0 && colIndex <= len(months),
\* counted from 1: cell p has colIndex p - 1.
InMonthsGuard(monthList, cells) ==
    {p \in DOMAIN cells : p - 1 > 0 /\ p - 1 <= Len(monthList)}

\* months[colIndex] is months[p] counted from 1: out of range for the cell
\* with colIndex = len(months).
MonthIndexPanics(monthList, cells) ==
    \E p \in InMonthsGuard(monthList, cells) : p > Len(monthList)

\* fieldData of one row: one single-pair map per cell that passed the guard.
fieldData(monthList, cells) ==
    [j \in 1..Cardinality(InMonthsGuard(monthList, cells)) |->
        QuarterColumn(monthList[j + 1], TrimSpace(cells[j + 1]))]

\* quarterlyResults after the row, as a decoded store value: the row's
\* label mapped to fieldData when fieldData is not empty.
quarterlyResults(monthList, cells) ==
    IF Cardinality(InMonthsGuard(monthList, cells)) > 0
    THEN Map(TrimSpace(cells[1]) :> Arr(fieldData(monthList, cells)))
    ELSE Map(EmptyMap)

\* The header rows of the table: an empty th over the label column, then
\* up to MaxSeries period headers, "-" among them.
HeaderRows ==
    {<<<<>>>> \o s :
        s \in SeqsUpTo({Month.Mar, Month.Jun, Month.Sep, <<"-">>}, MaxSeries)}

\* The body rows: the label cell, then up to MaxSeries value cells.
CellRows ==
    {<<PageLabel.Sales>> \o s :
        s \in SeqsUpTo({<<"1">>, <<"2">>, <<" ", "3">>}, MaxSeries)}

\* One table row extracted, then scored by analyzeTrend.
InitQuarters ==
    /\ pc = "apply"
    /\ subject \in [ths : HeaderRows, cells : CellRows]
    /\ result = Val(0, 1)
    /\ HandlerIdle

ExtractRow ==
    /\ pc = "apply"
    /\ IF MonthIndexPanics(months(subject.ths), subject.cells)
       THEN /\ pc' = "panicked"
            /\ result' = Panic
       ELSE /\ pc' = "extracted"
            /\ result' = quarterlyResults(months(subject.ths), subject.cells)
    /\ UNCHANGED subject
    /\ HandlerUnchanged

ScoreExtracted ==
    /\ pc = "extracted"
    /\ pc' = "scored"
    /\ result' = analyzeTrend(quarterlyResults(months(subject.ths),
                                               subject.cells))
    /\ UNCHANGED subject
    /\ HandlerUnchanged

NextQuarters == ExtractRow \/ ScoreExtracted

SpecQuarters == InitQuarters /\ [][NextQuarters]_vars

\* ------------------------------------------------- the category on its own

\* The market-cap texts getMarketCapCategory is applied to: decimal numbers
\* around the two thresholds, with and without a thousands separator, and
\* texts that are no number (fmt's rendering of a missing value among them).
CapTexts ==
    {whole \o frac :
        whole \in {
            <<"0">>, <<"4", "9", "9", "9">>, <<"4", ",", "9", "9", "9">>,
            <<"5", "0", "0", "0">>, <<"5", ",", "0", "0", "0">>,
            <<"1", "2", "0", "0", "0">>, <<"1", "9", "9", "9", "9">>,
            <<"1", "9", ",", "9", "9", "9">>, <<"2", "0", "0", "0", "0">>,
            <<"2", "0", ",", "0", "0", "0">>,
            <<"2", "5", ",", "0", "0", "0">>, <<"-", "1">>},
        frac \in {
            <<>>, <<".", "0">>, <<".", "0", "1">>, <<".", "5">>,
            <<".", "9", "9">>}}
    \cup {
        <<>>, <<"<", "n", "i", "l", ">">>, <<"a", "b", "c">>,
        <<"1", "2", "a">>, <<"1", ".", "2", ".", "3">>, <<",">>, <<".">>,
        <<"%">>, <<"5", "0", "0", "0", " ">>}

InitCategory ==
    /\ pc = "apply"
    /\ subject \in CapTexts
    /\ result = ""
    /\ HandlerIdle

Categorise ==
    /\ pc = "apply"
    /\ result' = getMarketCapCategory(subject)
    /\ pc' = "applied"
    /\ UNCHANGED subject
    /\ HandlerUnchanged

SpecCategory == InitCategory /\ [][Categorise]_vars

\* ------------------------------------------- parseTableData and the lookup

\* Rows of the sample tables.
MaxTableRows == 2

\* parseTableData over the tbody rows of the matched table, each row the
\* sequence of its td texts with the td.text cell first: the trimmed label
\* keys the trimmed texts of the cells after the first, and a later row with
\* the same label replaces an earlier one.  Without a matching table (Nil)
\* the section is nil.  The values are the array the store hands back.
parseTableData(table) ==
    IF ~IsArr(table) THEN Nil
    ELSE LET rows == table.a
         IN  Map([rowKey \in {TrimSpace(rows[i][1]) : i \in DOMAIN rows} |->
                LET tr == rows[CHOOSE i \in DOMAIN rows :
                                 /\ TrimSpace(rows[i][1]) = rowKey
                                 /\ \A j \in DOMAIN rows :
                                      j > i => TrimSpace(rows[j][1]) # rowKey]
                IN  Arr([j \in 1..(Len(tr) - 1) |-> Str(TrimSpace(tr[j + 1]))])])

\* Tables with labels in the encoding of the pages and in plain text, each
\* with the key a caller looks up.
TableSamples ==
    [rows : {Nil} \cup {Arr(rows) : rows \in SeqsUpTo(
                {<<label>> \o values :
                   label \in {PageLabel.Sales, PageLabel.NetProfit,
                              Label.Sales, Label.NetProfit,
                              <<" ">> \o PageLabel.Sales \o <<" ">>,
                              Label.TotalAssets},
                   values \in {<<>>, <<<<"1", ",", "2", "3", "4">>, <<" ", "5", "6", " ">>>>, <<<<"7">>>>}},
                MaxTableRows)},
     key : {PageLabel.Sales, PageLabel.NetProfit, Label.Sales, Label.NetProfit,
            <<" ">> \o Label.Sales \o <<" ">>, Label.TotalAssets}]

InitTable ==
    /\ pc = "apply"
    /\ subject \in TableSamples
    /\ result = Nil
    /\ HandlerIdle

\* fetchCompanyData keeps the table as profitLoss and the upload stores it.
ExtractTable ==
    /\ pc = "apply"
    /\ result' = Map(Key.profitLoss :> parseTableData(subject.rows))
    /\ pc' = "extracted"
    /\ UNCHANGED subject
    /\ HandlerUnchanged

\* A scorer reads the stored section by label.
LookUp ==
    /\ pc = "extracted"
    /\ result' = Arr(getNestedArrayField(result.m, <<Key.profitLoss, subject.key>>))
    /\ pc' = "looked"
    /\ UNCHANGED subject
    /\ HandlerUnchanged

SpecTable == InitTable /\ [][ExtractTable \/ LookUp]_vars

\* ------------------------------------------------ fetchPeerData and rating

\* fetchPeerData over the parsed answer: one map per tr[data-row-company-id],
\* the name from the link text and the other fields from the trimmed td
\* texts by position; medianData is made by each tfoot tr, so it is that of
\* the last one and stays nil without any; it is appended in either case.
\* An item is the link text a and the sequence td of its cell texts, td 0
\* first; a position past the last cell gives the empty text.  The result is
\* the array the store hands back, a nil map read back as null.
fetchPeerData(doc) ==
    LET Td(item, n) ==
            Str(TrimSpace(IF n + 1 <= Len(item.td) THEN item.td[n + 1] ELSE <<>>))
        Fields(item, first) ==
            Map(first
                @@ (Key.current_price :> Td(item, 2))
                @@ (Key.pe :> Td(item, 3))
                @@ (Key.market_cap :> Td(item, 4))
                @@ (Key.div_yield :> Td(item, 5))
                @@ (Key.np_qtr :> Td(item, 6))
                @@ (Key.qtr_profit_var :> Td(item, 7))
                @@ (Key.sales_qtr :> Td(item, 8))
                @@ (Key.qtr_sales_var :> Td(item, 9))
                @@ (Key.roce :> Td(item, 10)))
        peersData ==
            [i \in 1..Len(doc.rows) |->
                Fields(doc.rows[i], Key.name :> Str(doc.rows[i].a))]
        medianData ==
            IF Len(doc.foot) = 0 THEN Nil
            ELSE Fields(doc.foot[Len(doc.foot)],
                        Key.company_count :> Td(doc.foot[Len(doc.foot)], 1))
    IN  Arr(Append(peersData, medianData))

\* The company pages rated: the answer of the peers request (none when it
\* failed) with up to MaxPeers company rows and no, one or two footer rows,
\* and the record's own fields, with or without quarterly figures of its own.
RateSamples ==
    LET Item(a, pe, np, sales) ==
            [a |-> a,
             td |-> <<<<"1", ".">>, a, <<"9">>, pe, <<"2">>, <<"2">>, np,
                      <<"1">>, sales, <<"1">>, <<"2">>>>]
        Rows == {Item(Sample.Bolt, pe, np, sales) :
                    pe \in {<<"1", "0">>, <<" ", "2", "0", " ">>},
                    np \in {<<"-", "1">>, <<"2">>},
                    sales \in {<<"-", "1">>, <<"2">>}}
        Foots == {<<>>,
                  <<Item(<<"2">>, <<"1", "5">>, <<"-", "1">>, <<"-", "1">>)>>,
                  <<Item(<<"2">>, <<"1", "5">>, <<"-", "1">>, <<"-", "1">>),
                    Item(<<"3">>, <<"1", "5">>, <<"1">>, <<"1">>)>>}
        Own == {EmptyMap,
                (Key.sales_qtr :> Str(<<"1", "0", "0">>))
                @@ (Key.np_qtr :> Str(<<"5", "0">>))}
    IN  [doc : {[ok |-> FALSE, rows |-> <<>>, foot |-> <<>>]}
               \cup [ok : {TRUE}, rows : SeqsUpTo(Rows, MaxPeers), foot : Foots],
         stockPE : {Str(<<"5">>), Str(<<"3", "0">>)},
         own : Own]

InitRate ==
    /\ pc = "apply"
    /\ subject \in RateSamples
    /\ result = Nil
    /\ HandlerIdle

\* fetchCompanyData sets peers when the peers request succeeded, and the
\* upload stores the page under the name of the match.
FetchPeers ==
    /\ pc = "apply"
    /\ result' = Upserted(EmptyMap, Sample.AcmeLtd,
                     subject.own
                     @@ (Key.stockPE :> subject.stockPE)
                     @@ (Key.marketCap :> Str(<<"3">>))
                     @@ (Key.dividendYield :> Str(<<"3">>))
                     @@ (Key.roce :> Str(<<"3">>))
                     @@ (Key.quarterlyResults :> Map(
                            PageLabel.Sales :>
                                Arr(<<QuarterColumn(Month.Mar, <<"1">>),
                                      QuarterColumn(Month.Mar, <<"2">>)>>)))
                     @@ (Key.peers :> IF subject.doc.ok
                                      THEN fetchPeerData(subject.doc)
                                      ELSE Nil))
    /\ pc' = "fetched"
    /\ UNCHANGED subject
    /\ HandlerUnchanged

\* A later upload rates the stored record; the record is kept beside its
\* rating.
Rate ==
    /\ pc = "fetched"
    /\ result' = [record |-> result, rating |-> rateStock(result)]
    /\ pc' = "rated"
    /\ UNCHANGED subject
    /\ HandlerUnchanged

SpecRate == InitRate /\ [][FetchPeers \/ Rate]_vars

\* ------------------------------------------------------------------ claims

\* The instrument rows of sheet s and what the log and the output hold for
\* a row, as the claims below speak of them.

\* The first row of g that holds the header (0 when there is none).
HeaderRowOf(g) ==
    IF \E h \in DOMAIN g : IsHeaderRow(g[h])
    THEN CHOOSE h \in DOMAIN g :
            IsHeaderRow(g[h]) /\ \A k \in 1..(h - 1) : ~IsHeaderRow(g[k])
    ELSE 0

\* The row text holds "subtotal" or "total", whatever the case.
HoldsTotal(row) ==
    \/ Contains(ToLower(Join(row)), Lit.subtotal)
    \/ Contains(ToLower(Join(row)), Lit.total)

\* The first non-empty row after the header that holds the marker text
\* (Len(g) + 1 when there is none).
MarkerRowOf(g) ==
    LET h == HeaderRowOf(g)
        isMarker(m) == h > 0 /\ m > h /\ Len(g[m]) > 0 /\ HoldsTotal(g[m])
    IN  IF \E m \in DOMAIN g : isMarker(m)
        THEN CHOOSE m \in DOMAIN g :
                isMarker(m) /\ \A k \in 1..(m - 1) : ~isMarker(k)
        ELSE Len(g) + 1

\* The rows of g that name an instrument: after the header, before the
\* marker, with text in the name column.
InstrumentRowsOf(g) ==
    LET h == HeaderRowOf(g)
        m == MarkerRowOf(g)
    IN  IF h = 0
        THEN {}
        ELSE {r \in (h + 1)..(m - 1) :
                Len(g[r]) > 0 /\ NameCell(g[r], NameColumn(g[h])) # <<>>}

CallsFor(s, r) == {j \in DOMAIN log : log[j].sheet = s /\ log[j].row = r}

ChunksFor(s, r) ==
    {i \in DOMAIN out :
        out[i].kind = "row" /\ out[i].sheet = s /\ out[i].row = r}

\* The resolution of row r of sheet s failed in the way named.
LookupFailed(s, r) ==
    \E j \in CallsFor(s, r) : log[j].op = "lookup" /\ log[j].res = "error"

NoSearchMatch(s, r) ==
    \E j \in CallsFor(s, r) : log[j].op = "search" /\ log[j].res = "none"

FetchFailed(s, r) ==
    \E j \in CallsFor(s, r) : log[j].op = "fetch" /\ log[j].res = "error"

UpsertFailed(s, r) ==
    \E j \in CallsFor(s, r) : log[j].op = "upsert" /\ log[j].res = "error"

\* C1 as claimed: a row whose resolution failed (store lookup error, no
\* live-search match, live-fetch error or store upsert error) has no record
\* on the output stream.
C1_FailedRowWritesNothing ==
    \A s \in 1..sheet : \A r \in DOMAIN grids[s] :
        (LookupFailed(s, r) \/ NoSearchMatch(s, r) \/ FetchFailed(s, r)
            \/ UpsertFailed(s, r))
        => ChunksFor(s, r) = {}

\* C2 as claimed: every row record written to the output stream carries
\* stockRate, f_score and the market-cap category, whichever branch of the
\* resolver handled the row.
C2_EveryRecordIsScored ==
    \A i \in DOMAIN out :
        out[i].kind = "row"
        => {"stockRate", "f_score", "marketCap"} \subseteq DOMAIN out[i].detail

\* C3 as claimed: generateFScore returns a score, without a panic, for
\* every record, among them records whose series are absent or too short.
C3_FScoreNeverPanics == pc = "applied" => ~result.panics

\* C4: in a sheet with a header row, the first later non-empty row that
\* holds "subtotal" or "total" (in any case) ends the sheet: for that row
\* and every row after it there is no store lookup, no live call and no
\* record written.
C4_NothingFromMarkerOn ==
    \A s \in 1..sheet : \A r \in DOMAIN grids[s] :
        r >= MarkerRowOf(grids[s]) => CallsFor(s, r) = {} /\ ChunksFor(s, r) = {}

\* C4 witness: a sheet was read to its end marker, which an instrument row
\* follows, and the run is over.
C4_Witness ==
    /\ pc = "done"
    /\ \E s \in 1..sheet :
         /\ MarkerRowOf(grids[s]) < Len(grids[s])
         /\ grids[s][Len(grids[s])] = <<Sample.Acme>>
         /\ stopExtracting
         /\ s = sheet

\* The step handles a row whose top match has relevance >= 1.0.
StoredRecordStep ==
    /\ Len(log') > Len(log)
    /\ log'[Len(log) + 1].op = "lookup"
    /\ log'[Len(log) + 1].res = "ok"
    /\ log'[Len(log) + 1].arg >= 1 * Unit

\* C5: a row whose top match has relevance >= 1.0 makes the lookup and no
\* other call (no live search, no live fetch, no store write), and leaves
\* the store as it was.
C5_StoredRecordUsedDirectly ==
    [][StoredRecordStep => (store' = store /\ Len(log') = Len(log) + 1)]_vars

\* C5 witness: a row was served from a stored record matched with
\* relevance exactly 1.0 and its scored record was written.
C5_Witness ==
    \E j \in DOMAIN log :
        /\ log[j].op = "lookup"
        /\ log[j].res = "ok"
        /\ log[j].arg = 1 * Unit
        /\ \E i \in ChunksFor(log[j].sheet, log[j].row) :
               "stockRate" \in DOMAIN out[i].detail

\* The calls of row (s, r), in the order they were made.
RowCalls(s, r) == SelectSeq(log, LAMBDA e : e.sheet = s /\ e.row = r)

\* C6: a row whose top match has relevance < 1.0 makes, in this order, the
\* live search, the fetch of the first search result and one upsert keyed
\* by that result's name, and nothing else; when the search finds nothing
\* or the fetch fails there is no upsert.
C6_LowRelevanceCallOrder ==
    \A s \in 1..sheet : \A r \in DOMAIN grids[s] :
        LET calls == RowCalls(s, r)
        IN  (/\ calls # <<>>
             /\ calls[1].op = "lookup"
             /\ calls[1].res = "ok"
             /\ calls[1].arg < 1 * Unit)
            => /\ Len(calls) >= 2
               /\ calls[2].op = "search"
               /\ IF calls[2].res = "none"
                  THEN Len(calls) = 2
                  ELSE /\ Len(calls) >= 3
                       /\ calls[3].op = "fetch"
                       /\ calls[3].arg = calls[2].arg
                       /\ IF calls[3].res = "error"
                          THEN Len(calls) = 3
                          ELSE /\ Len(calls) = 4
                               /\ calls[4].op = "upsert"
                               /\ calls[4].arg = calls[2].arg

\* C6 witness: a row went through search, fetch and a successful upsert
\* under a name the store did not hold before.
C6_Witness ==
    /\ Sample.Bolt \in DOMAIN store
    /\ \E j \in DOMAIN log :
         log[j].op = "upsert" /\ log[j].res = "ok" /\ log[j].arg = Sample.Bolt

\* Sheet s was skipped because its rows could not be read.
Skipped(s) == \E j \in DOMAIN log : log[j].op = "getrows" /\ log[j].sheet = s

\* The row loop of sheet s has gone past row r.
Passed(s, r) ==
    \/ s < sheet
    \/ s = sheet /\ (r <= rowNo \/ pc \in {"sheets", "done"})

\* A write for an earlier row of the sheet returned an error (which ends
\* the rows of that sheet).
WriteFailedBefore(s, r) ==
    \E i \in DOMAIN out :
        out[i].kind = "row" /\ out[i].sheet = s /\ out[i].row < r /\ out[i].err

\* The resolution of row (s, r) produced a record to write.
Resolved(s, r) ==
    \E j \in CallsFor(s, r) :
        \/ log[j].op = "upsert"
        \/ /\ log[j].op = "lookup"
           /\ log[j].res = "ok"
           /\ log[j].arg >= 1 * Unit
           /\ ~(pc = "panicked" /\ s = sheet /\ r = rowNo)

\* C7: a resolution failure of one row (store lookup error, no live-search
\* match, live-fetch error) does not end the rows of its sheet: every later
\* instrument row of the sheet that the loop has gone past, no write error
\* having ended the sheet before it, was looked up in the store, and was
\* written when its own resolution produced a record.
C7_FailureDoesNotStopBatch ==
    \A s \in 1..sheet :
        LET rows == InstrumentRowsOf(grids[s])
        IN  \A r0 \in rows, r \in rows :
                (/\ r0 < r
                 /\ LookupFailed(s, r0) \/ NoSearchMatch(s, r0)
                        \/ FetchFailed(s, r0)
                 /\ ~Skipped(s)
                 /\ Passed(s, r)
                 /\ ~WriteFailedBefore(s, r))
                => /\ \E j \in CallsFor(s, r) : log[j].op = "lookup"
                   /\ Resolved(s, r) => ChunksFor(s, r) # {}

\* C7 witness: the first instrument row of a sheet failed at the store
\* lookup and the next one was resolved and written.
C7_Witness ==
    \E s \in 1..sheet :
        \E r0 \in DOMAIN grids[s], r \in DOMAIN grids[s] :
            /\ r0 < r
            /\ {r0, r} \subseteq InstrumentRowsOf(grids[s])
            /\ LookupFailed(s, r0)
            /\ Resolved(s, r)
            /\ ChunksFor(s, r) # {}

\* C8 as claimed: a run that got past input validation and has ended has
\* written the completion marker exactly once, as its last chunk, and every
\* chunk before it is one newline-terminated row record.
C8_MarkerEndsEveryRun ==
    pc \in {"done", "panicked"}
    => /\ out # <<>>
       /\ out[Len(out)].kind = "marker"
       /\ \A i \in 1..(Len(out) - 1) : out[i].kind = "row" /\ out[i].newline

\* The peers value of the subject is a list of n entries.
IsPeerList(n) == IsArr(subject.peers) /\ Len(subject.peers.a) = n

\* C9: for a peers value with fewer than 2 entries, or one that is no list,
\* compareWithPeers returns exactly 0 and does not panic.
C9_FewPeersScoreZero ==
    (pc = "applied" /\ ~(IsArr(subject.peers) /\ Len(subject.peers.a) >= 2))
    => ~result.panics /\ result.n = 0

\* C9 witness: a list of one entry, against which the target would have
\* earned points, scored 0.
C9_Witness ==
    /\ pc = "applied"
    /\ IsPeerList(1)
    /\ MedianRound(subject.stock, subject.peers.a[1].m) > 0
    /\ result.n = 0

\* The subject is a list of at least 2 peer records.
IsScoredPeerList ==
    /\ pc = "applied"
    /\ IsArr(subject.peers)
    /\ Len(subject.peers.a) >= 2
    /\ \A i \in DOMAIN subject.peers.a : IsMap(subject.peers.a[i])

\* C10 as claimed: for a peer set of at least 2 entries the value of
\* compareWithPeers lies in [0, 58].
C10_ScoreWithin58 ==
    IsScoredPeerList
    => /\ ~result.panics
       /\ result.n >= 0
       /\ result.n <= 58 * Unit * result.d

\* C10 amended: the value lies in [0, 68]; it lies in [0, 58] when the set
\* holds 2 or more peers besides the median.
C10_ScoreWithin68 ==
    IsScoredPeerList
    => /\ ~result.panics
       /\ result.n >= 0
       /\ result.n <= 68 * Unit * result.d
       /\ Len(subject.peers.a) >= 3 => result.n <= 58 * Unit * result.d

\* C10 witness: one peer and the median, and the target beats both in
\* every comparison: 45 + 23 = 68.
C10_Witness ==
    /\ pc = "applied"
    /\ IsPeerList(2)
    /\ result.n = 68 * Unit * result.d

\* The points the peers of the subject earn in the peer loop, and the points
\* of the median round, each computed on its own.
PeerPoints ==
    PeerLoop(subject.stock, subject.peers.a, Len(subject.peers.a) - 1)

MedianPoints ==
    MedianRound(subject.stock, subject.peers.a[Len(subject.peers.a)].m)

\* The number of peers of the subject: the entries before the median.
Peers == Len(subject.peers.a) - 1

\* C11 as claimed: with n >= 1 peers and the median, the result equals
\* (sum of the per-peer points) / n + (median-round points), the median
\* points undivided.
C11_MedianAddedUndivided ==
    IsScoredPeerList
    => result.n * Peers = (PeerPoints + Peers * MedianPoints) * result.d

\* C11 amended: the median-round points are added once but divided with
\* the peer points, result = (per-peer points) / n + (median points) / n;
\* this equals the undivided form only with one peer or with a median round
\* that gave no points.
C11_MedianDividedWithPeers ==
    IsScoredPeerList
    => /\ result.n * Peers = (PeerPoints + MedianPoints) * result.d
       /\ (result.n * Peers = (PeerPoints + Peers * MedianPoints) * result.d)
            <=> (Peers = 1 \/ MedianPoints = 0)

\* C11 witness: two peers and a median round that gave points.
C11_Witness ==
    /\ IsScoredPeerList
    /\ Peers = 2
    /\ MedianPoints > 0
    /\ PeerPoints > 0

\* C12: the median-round points go into the accumulator of the per-peer
\* points before the division, and the divisor is the number of peers
\* (list length minus 1), never the list length.
C12_OneAccumulatorPeerCountDivisor ==
    IsScoredPeerList
    => /\ result.n = PeerPoints + MedianPoints
       /\ result.d = Len(subject.peers.a) - 1
       /\ result.d # Len(subject.peers.a)

\* C12 witness: a list of two peers and the median scored points in both
\* rounds and the sum was divided by 2.
C12_Witness ==
    /\ IsScoredPeerList
    /\ Len(subject.peers.a) = 3
    /\ PeerPoints > 0
    /\ MedianPoints > 0
    /\ result.d = 2

\* A peer row with every field replaced by the number its text stands for
\* when thousands separators are dropped and a percent sign divides by 100.
Tolerant(peer) == [k \in DOMAIN peer |-> F64(toFloat(peer[k]))]

TolerantPeers ==
    Arr([i \in DOMAIN subject.peers.a |-> Map(Tolerant(subject.peers.a[i].m))])

\* C13 as claimed: compareWithPeers compares every textual peer and median
\* field as the number its text stands for with thousands separators
\* removed and a percent suffix taken as value/100, so its result is the one
\* it gives for the same rows with the fields already converted that way.
C13_PeerFieldsParsedTolerantly ==
    IsScoredPeerList
    => result = compareWithPeers(subject.stock, TolerantPeers)

\* The adjacent pairs analyzeTrend can compare in the subject: label l,
\* the k-th and (k+1)-th period entry of l, and a key both entries hold.
PairsOf(l) ==
    UNION {{<<l, k, key>> :
              key \in DOMAIN QuarterMaps(subject.m[l])[k].m
                      \cap DOMAIN QuarterMaps(subject.m[l])[k + 1].m} :
           k \in 1..(Len(QuarterMaps(subject.m[l])) - 1)}

TrendPairs ==
    IF IsMap(subject) THEN UNION {PairsOf(l) : l \in DOMAIN subject.m} ELSE {}

\* current minus previous of the pair p.
Delta(p) ==
    toFloat(QuarterMaps(subject.m[p[1]])[p[2] + 1].m[p[3]])
    - toFloat(QuarterMaps(subject.m[p[1]])[p[2]].m[p[3]])

Ups == Cardinality({p \in TrendPairs : Delta(p) > 0})

Downs == Cardinality({p \in TrendPairs : Delta(p) < 0})

Ties == Cardinality({p \in TrendPairs : Delta(p) = 0})

\* C14 as claimed: analyzeTrend returns 5 * (ups - downs) / (ups + downs);
\* a pair of equal values or with one side missing is not counted in the
\* divisor; the result is 0.0 when no pair is counted.
C14_TiesNotCounted ==
    pc = "applied"
    => /\ ~result.panics
       /\ IF Ups + Downs > 0
          THEN result.n * (Ups + Downs) = 5 * Unit * (Ups - Downs) * result.d
          ELSE result.n = 0

\* The period entries stored for the row of the subject, and the number
\* the j-th of them holds.
StoredPeriods ==
    Cardinality(InMonthsGuard(months(subject.ths), subject.cells))

PeriodValue(j) == toFloat(Str(TrimSpace(subject.cells[j + 1])))

\* C15 as claimed: for a label stored the way the extractor stores it, with
\* k period values whose neighbours all differ, analyzeTrend makes k - 1
\* scored comparisons, and a strictly increasing series scores +5.
C15_ExtractedSeriesIsCompared ==
    (/\ pc = "scored"
     /\ StoredPeriods >= 2
     /\ \A j \in 1..(StoredPeriods - 1) : PeriodValue(j) # PeriodValue(j + 1))
    => /\ Comparisons(quarterlyResults(months(subject.ths), subject.cells).m)
            = StoredPeriods - 1
       /\ (\A j \in 1..(StoredPeriods - 1) : PeriodValue(j) < PeriodValue(j + 1))
            => result.n = 5 * Unit * result.d

\* The entries extracted for the row of the subject.
ExtractedEntries ==
    IF result.m = EmptyMap THEN <<>> ELSE result.m[TrimSpace(subject.cells[1])].a

\* C20 as claimed: the extraction of a row never indexes the period-header
\* list out of range, whatever the row width and the header count, and the
\* k-th value column is stored under the k-th period header.
C20_ValuePairedWithItsHeader ==
    /\ pc # "panicked"
    /\ pc = "extracted"
       => \A k \in DOMAIN ExtractedEntries :
             ExtractedEntries[k]
                = QuarterColumn(months(subject.ths)[k],
                                TrimSpace(subject.cells[k + 1]))

\* C16: whenever generateFScore returns, the result is an integer in 0..9
\* and is the sum of the three sub-scores, profitability being in 0..4,
\* leverage in 0..3 and operating efficiency in 0..2.
C16_FScoreRanges ==
    (pc = "applied" /\ ~result.panics)
    => /\ result.d = 1
       /\ result.n \in 0..9
       /\ calculateProfitabilityScore(subject).n \in 0..4
       /\ calculateLeverageScore(subject).n \in 0..3
       /\ calculateOperatingEfficiencyScore(subject).n \in 0..2
       /\ result.n = calculateProfitabilityScore(subject).n
                     + calculateLeverageScore(subject).n
                     + calculateOperatingEfficiencyScore(subject).n

\* C16 witness: generateFScore returned for a record that passes both
\* operating-efficiency checks and scores in the two other groups too.
C16_Witness ==
    /\ pc = "applied"
    /\ ~result.panics
    /\ calculateOperatingEfficiencyScore(subject).n = 2
    /\ calculateProfitabilityScore(subject).n >= 2
    /\ calculateLeverageScore(subject).n >= 2
    /\ result.n >= 6

\* The number the market-cap text of the subject stands for, thousands
\* separators dropped, and whether it is a number at all.
CapValue == ParseFloat(ReplaceAll(subject, <<",">>, <<>>))

\* C17: for a parsable market-cap value v, thousands separators allowed,
\* getMarketCapCategory returns "Large Cap" when v >= 20000, "Mid Cap" when
\* 5000 <= v < 20000 and "Small Cap" when v < 5000; 5000 and 19999.99 are
\* Mid Cap, 20000 is Large Cap and 4999.99 is Small Cap.
C17_CategoryByThresholds ==
    (pc = "applied" /\ CapValue.ok)
    => /\ result = IF CapValue.f >= 20000 * Unit THEN "Large Cap"
                   ELSE IF CapValue.f >= 5000 * Unit THEN "Mid Cap"
                   ELSE "Small Cap"
       /\ subject = <<"5", "0", "0", "0">> => result = "Mid Cap"
       /\ subject = <<"1", "9", "9", "9", "9", ".", "9", "9">>
            => result = "Mid Cap"
       /\ subject = <<"2", "0", "0", "0", "0">> => result = "Large Cap"
       /\ subject = <<"4", "9", "9", "9", ".", "9", "9">> => result = "Small Cap"

\* C17 witness: 19,999.99, written with its thousands separator, was put
\* in Mid Cap.
C17_Witness ==
    /\ pc = "applied"
    /\ subject = <<"1", "9", ",", "9", "9", "9", ".", "9", "9">>
    /\ result = "Mid Cap"

\* C18 as claimed: for a market-cap text that is no number (empty, a
\* missing value rendered as text, non-numeric) getMarketCapCategory
\* returns "Unknown Category" and none of the three size categories.
C18_UnparsableIsUnknown ==
    (pc = "applied" /\ ~CapValue.ok) => result = "Unknown Category"

\* The two aggregate labels: as a caller writes them and as the pages
\* encode them.
AggregateLabels ==
    {[plain |-> Label.Sales, page |-> PageLabel.Sales],
     [plain |-> Label.NetProfit, page |-> PageLabel.NetProfit]}

\* The rows of the subject's table whose trimmed label is the given one.
RowsLabelled(label) ==
    {i \in DOMAIN subject.rows.a : TrimSpace(subject.rows.a[i][1]) = label}

\* The values the table holds under the label: the trimmed cells after the
\* first of the last row so labelled, none without such a row.
ValuesUnder(label) ==
    IF RowsLabelled(label) = {} THEN <<>>
    ELSE LET tr == subject.rows.a[CHOOSE i \in RowsLabelled(label) :
                                    \A j \in RowsLabelled(label) : j <= i]
         IN  [j \in 1..(Len(tr) - 1) |-> Str(TrimSpace(tr[j + 1]))]

\* The lookup of the subject's key in its stored table has been made.
LookedUp == pc = "looked" /\ IsArr(subject.rows)

\* C19 as claimed: a section built from a table with the labels "Sales +"
\* and "Net Profit +" returns the stored values when looked up with the
\* non-breaking-space form of a label and the empty sequence when looked up
\* with the plain-space form.  The labels of the table are read in either
\* encoding.
C19_PlainKeyFindsNothing ==
    \A k \in AggregateLabels : \A stored \in {k.plain, k.page} :
        (/\ LookedUp
         /\ \A l \in AggregateLabels :
                RowsLabelled(IF stored = k.plain THEN l.plain ELSE l.page) # {})
        => /\ subject.key = k.page => result.a = ValuesUnder(stored)
           /\ subject.key = k.plain => result.a = <<>>

\* C19: a lookup with either form of an aggregate label, white space around
\* it or not, returns the values the table holds under the
\* non-breaking-space form of the label: the plain-space key is rewritten
\* to that form before the lookup, so it finds what the
\* non-breaking-space key finds, and a row labelled with a plain space is
\* found by neither.
C19_BothKeysFindPageLabel ==
    \A k \in AggregateLabels :
        (LookedUp /\ TrimSpace(subject.key) \in {k.plain, k.page})
        => result.a = ValuesUnder(k.page)

\* C19 witness: a table with both labels as the pages encode them was
\* looked up with the plain-space key and its values came back.
C19_Witness ==
    /\ LookedUp
    /\ \A l \in AggregateLabels : RowsLabelled(l.page) # {}
    /\ subject.key = Label.Sales
    /\ result.a = ValuesUnder(PageLabel.Sales)
    /\ Len(result.a) = 2

\* The peer set fetchPeerData returned for the subject's peers answer.
PeerSet == fetchPeerData(subject.doc).a

\* C21 as claimed: every peer set returned by fetchPeerData ends with a
\* non-null median record, also when the answer has no footer row: its
\* last element is a map, the aggregate (it holds company_count and no
\* name), and a set of 2 or more entries is read by compareWithPeers
\* without a failure.
C21_PeerSetEndsWithMedian ==
    /\ (pc = "fetched" /\ subject.doc.ok)
       => /\ result[Key.peers] = Arr(PeerSet)
          /\ IsMap(PeerSet[Len(PeerSet)])
          /\ Key.company_count \in DOMAIN PeerSet[Len(PeerSet)].m
          /\ Key.name \notin DOMAIN PeerSet[Len(PeerSet)].m
    /\ (pc = "rated" /\ subject.doc.ok /\ Len(PeerSet) >= 2)
       => ~result.rating.panics

\* The stored record with its own sales_qtr and np_qtr set to the text v.
WithOwnQuarters(record, v) ==
    (Key.sales_qtr :> Str(v)) @@ (Key.np_qtr :> Str(v)) @@ record

\* The stored record with the sales_qtr and np_qtr of every peer row and of
\* the median set to "0".
WithLevelPeers(record) ==
    (Key.peers :>
        Arr([i \in DOMAIN record[Key.peers].a |->
                Map((Key.sales_qtr :> Str(<<"0">>)) @@ (Key.np_qtr :> Str(<<"0">>))
                    @@ record[Key.peers].a[i].m)]))
    @@ record

\* The points the sales and profit comparisons would add for a target whose
\* figures are 0: 5 and 10 for a peer, 2 and 5 for the median, each only
\* against a negative figure.
NegativePoints(arr) ==
    LET Points(i, key, peer, median) ==
            IF parseFloat(Get(arr[i].m, key)) < 0
            THEN (IF i < Len(arr) THEN peer ELSE median) * Unit
            ELSE 0
    IN  SumOver(DOMAIN arr,
                [i \in DOMAIN arr |->
                    Points(i, Key.sales_qtr, 5, 2) + Points(i, Key.np_qtr, 10, 5)])

\* A record has been rated and the rating came back.
Rated == pc = "rated" /\ ~result.rating.panics

====
